---- MODULE Spec2Model ----
(***************************************************************************)
(* GhostFS (src/fs.c): a cluster filesystem over a flat byte store.        *)
(*                                                                         *)
(* The model keeps the byte layout of the code: a cluster is CLUSTER_DATA  *)
(* payload cells followed by the trailer {next, used, dirty}; a directory  *)
(* cluster is the same payload read as CLUSTER_DIRENTS entries of          *)
(* FILENAME_SIZE name cells, one size cell and one first-cluster cell.     *)
(* The sizes are scaled down (the ratios of the code are kept:             *)
(* CLUSTER_DATA = CLUSTER_DIRENTS * sizeof(dir_entry)); one cell stands    *)
(* for one field of the C struct.                                          *)
(*                                                                         *)
(* A path is the sequence of the pieces of the C string between its '/'    *)
(* characters: "/a/b" is << <<>>, a, b >>, "/" is << <<>>, <<>> >>, and    *)
(* "a" (no leading slash) is << a >>.  A name is a sequence of characters  *)
(* (non-zero naturals).                                                    *)
(***************************************************************************)
EXTENDS Integers, Sequences, FiniteSets, TLC

\* ---------------------------------------------------------------- constants
\* enum at fs.c:17-23, scaled
CLUSTER_DIRENTS == 2
FILENAME_SIZE == 3
FILESIZE_MAX == 63
\* sizeof(struct dir_entry): filename, size, cluster
ENTRY_SIZE == FILENAME_SIZE + 2
CLUSTER_DATA == CLUSTER_DIRENTS * ENTRY_SIZE
CLUSTER_SIZE == CLUSTER_DATA + 4
\* 16 bytes of MD5 and the two bytes of struct ghostfs_header
HEADER_SIZE == 18
\* the is-directory bit of dir_entry.size, the bit above FILESIZE_MAX
DIRFLAG == FILESIZE_MAX + 1
\* the largest cluster_count (uint16_t)
COUNT_MAX == 65535
\* free_clusters is a uint16_t: it counts modulo this
U16 == 65536

\* ------------------------------------------------------------------- bounds
\* capacity of the largest carrier, in clusters
MaxClusters == 3
\* file handles a caller holds at once
MaxHandles == 1
\* calls that change a volume whose structure is already broken
MaxAftermath == 3

\* a value computed once and used under a name
Let1(v, Op(_)) == Op(v)

min(a, b) == IF a < b THEN a ELSE b

\* ------------------------------------------------------------------ results
OK == "OK"

\* ----------------------------------------------------------------- clusters
ZeroData == [i \in 0..(CLUSTER_DATA - 1) |-> 0]

ZeroCluster == [data |-> ZeroData, next |-> 0, used |-> 0, dirty |-> 0]

\* what a carrier that never held a filesystem may hold: every field non-zero
JunkCluster == [data |-> [i \in 0..(CLUSTER_DATA - 1) |-> 1], next |-> 1, used |-> 1, dirty |-> 1]

\* (the slip: a change is not recorded)
mark_cluster_not(c) == c

mark_cluster(c) == [c EXCEPT !.dirty = 1]

unmark_cluster(c) == [c EXCEPT !.dirty = 0]

is_dirty(c) == c.dirty # 0

\* --------------------------------------------------------- directory entries
\* struct dir_entry at slot k of a payload d
EName(d, k) == [i \in 0..(FILENAME_SIZE - 1) |-> d[k * ENTRY_SIZE + i]]

ESize(d, k) == d[k * ENTRY_SIZE + FILENAME_SIZE]

ECluster(d, k) == d[k * ENTRY_SIZE + FILENAME_SIZE + 1]

dir_entry_is_directory(size) == (size \div DIRFLAG) % 2 = 1

dir_entry_set_size(new_size, is_dir) == (new_size % DIRFLAG) + (IF is_dir THEN DIRFLAG ELSE 0)

\* the low 31 bits of the size field: the byte length
SizeBytes(size) == size % DIRFLAG

\* gfs->root_entry after calloc and ghostfs_mount: no name, the directory bit, cluster 0
RootRef == [root |-> TRUE, cl |-> 0, nr |-> 0]

\* An iterator: the number of it->cluster, entry_nr, and whether it->entry is &gfs->root_entry
Iter(cl, nr) == [root |-> FALSE, cl |-> cl, nr |-> nr]

EntName(g, it) == IF it.root THEN [i \in 0..(FILENAME_SIZE - 1) |-> 0] ELSE EName(g.clusters[it.cl].data, it.nr)

EntSize(g, it) == IF it.root THEN DIRFLAG ELSE ESize(g.clusters[it.cl].data, it.nr)

EntCluster(g, it) == IF it.root THEN 0 ELSE ECluster(g.clusters[it.cl].data, it.nr)

dir_entry_used(name) == name[0] # 0

\* ------------------------------------------------------------ cluster store
\* read_cluster: the bytes of the store, the dirty byte cleared
read_cluster(d, nr) == unmark_cluster(d.cl[nr])

\* cluster_get: the error, or the handle with cluster nr in the cache
cluster_get_ret(g, nr) == IF nr >= g.count THEN "ERANGE" ELSE OK

cluster_get(g, d, nr) ==
  IF nr >= g.count \/ nr \in g.loaded THEN g
  ELSE [g EXCEPT !.clusters[nr] = read_cluster(d, nr), !.loaded = @ \cup {nr}]

\* A loop over a chain that did not end within this many steps is on a cycle
\* of next pointers and never ends.
Fuel(g) == g.count * CLUSTER_DIRENTS + 1

HANG == "HANG"

\* --------------------------------------------------------------- iterators
dir_iter_init(g, nr) ==
  IF cluster_get_ret(g, nr) # OK THEN [ret |-> cluster_get_ret(g, nr), it |-> Iter(0, 0)]
  ELSE [ret |-> OK, it |-> Iter(nr, 0)]

\* (the slip: the last entry of a cluster is never visited)
dir_iter_next_short(g, it) ==
  IF it.nr >= CLUSTER_DIRENTS - 2
  THEN LET nx == g.clusters[it.cl].next IN
       IF nx = 0 THEN [ret |-> "ENOENT", it |-> it]
       ELSE IF cluster_get_ret(g, nx) # OK THEN [ret |-> cluster_get_ret(g, nx), it |-> it]
       ELSE [ret |-> OK, it |-> Iter(nx, 0)]
  ELSE [ret |-> OK, it |-> Iter(it.cl, it.nr + 1)]

dir_iter_next(g, it) ==
  IF it.nr >= CLUSTER_DIRENTS - 1
  THEN LET nx == g.clusters[it.cl].next IN
       IF nx = 0 THEN [ret |-> "ENOENT", it |-> it]
       ELSE IF cluster_get_ret(g, nx) # OK THEN [ret |-> cluster_get_ret(g, nx), it |-> it]
       ELSE [ret |-> OK, it |-> Iter(nx, 0)]
  ELSE [ret |-> OK, it |-> Iter(it.cl, it.nr + 1)]

RECURSIVE next_used_loop(_, _, _, _)
next_used_loop(g, it, temp, fuel) ==
  IF fuel = 0 THEN [ret |-> HANG, it |-> it]
  ELSE LET r == dir_iter_next(g, temp) IN
       IF r.ret # OK THEN [ret |-> r.ret, it |-> it]
       ELSE IF dir_entry_used(EntName(g, r.it)) THEN [ret |-> OK, it |-> r.it]
       ELSE next_used_loop(g, it, r.it, fuel - 1)

\* (the slip: a used entry is looked for in the cluster of the iterator only)
dir_iter_next_used_here(g, it) ==
  Let1(next_used_loop(g, it, it, Fuel(g)), LAMBDA r :
  IF r.ret = OK /\ r.it.cl # it.cl THEN [ret |-> "ENOENT", it |-> it] ELSE r)

dir_iter_next_used(g, it) == next_used_loop(g, it, it, Fuel(g))

RECURSIVE component_eq_at(_, _, _, _)
component_eq_at(comp, name, n, i) ==
  IF n > 0 /\ i < Len(comp) /\ comp[i + 1] = name[i]
  THEN component_eq_at(comp, name, n - 1, i + 1)
  ELSE IF n = 0 THEN FALSE
  ELSE i = Len(comp) /\ name[i] = 0

component_eq(comp, name, n) == component_eq_at(comp, name, n, 0)

RECURSIVE lookup_loop(_, _, _, _, _)
lookup_loop(g, it, rest, skip_last, fuel) ==
  IF fuel = 0 THEN [ret |-> HANG, it |-> it]
  ELSE IF component_eq(Head(rest), EntName(g, it), FILENAME_SIZE)
  THEN IF Len(rest) = 1 \/ (skip_last /\ Len(rest) = 2) THEN [ret |-> OK, it |-> it]
       ELSE IF ~dir_entry_is_directory(EntSize(g, it)) THEN [ret |-> "ENOTDIR", it |-> it]
       ELSE LET r == dir_iter_init(g, EntCluster(g, it)) IN
            IF r.ret # OK THEN r
            ELSE lookup_loop(g, r.it, Tail(rest), skip_last, Fuel(g))
  ELSE LET r == dir_iter_next_used(g, it) IN
       IF r.ret # OK THEN r
       ELSE lookup_loop(g, r.it, rest, skip_last, fuel - 1)

\* path[0] == '/'
Absolute(path) == Len(path) >= 2 /\ path[1] = <<>>

\* dir_iter_lookup on a handle whose cluster 0 is cached
dir_iter_lookup(g, path, skip_last) ==
  IF ~Absolute(path) THEN [ret |-> "EINVAL", it |-> Iter(0, 0)]
  ELSE LET comp == Tail(path) IN
       IF (Len(comp) = 1 /\ Head(comp) = <<>>) \/ (skip_last /\ Len(comp) = 1)
       THEN [ret |-> OK, it |-> RootRef]
       ELSE lookup_loop(g, Iter(0, 0), comp, skip_last, Fuel(g))

last_component(path) == path[Len(path)]

RECURSIVE find_empty_loop(_, _, _)
find_empty_loop(g, it, fuel) ==
  IF fuel = 0 THEN [ret |-> HANG, it |-> it]
  ELSE IF ~dir_entry_used(EntName(g, it)) THEN [ret |-> OK, it |-> it]
  ELSE LET r == dir_iter_next(g, it) IN
       IF r.ret # OK THEN [ret |-> r.ret, it |-> it]
       ELSE find_empty_loop(g, r.it, fuel - 1)

\* on ENOENT the iterator is left at the last entry of the chain; on another
\* error the caller's iterator is not updated (the caller returns at once)
find_empty_entry(g, cluster_nr) ==
  LET r == dir_iter_init(g, cluster_nr) IN
  IF r.ret # OK THEN r ELSE find_empty_loop(g, r.it, Fuel(g))

\* strncmp(filename, name, FILENAME_SIZE) == 0
RECURSIVE strncmp_eq_at(_, _, _, _)
strncmp_eq_at(filename, name, n, i) ==
  IF n = 0 THEN TRUE
  ELSE LET a == filename[i]
           b == IF i < Len(name) THEN name[i + 1] ELSE 0 IN
       IF a # b THEN FALSE
       ELSE IF a = 0 THEN TRUE
       ELSE strncmp_eq_at(filename, name, n - 1, i + 1)

RECURSIVE dir_contains_loop(_, _, _, _)
dir_contains_loop(g, it, name, fuel) ==
  IF fuel = 0 THEN HANG
  ELSE IF strncmp_eq_at(EntName(g, it), name, FILENAME_SIZE, 0) THEN OK
  ELSE LET r == dir_iter_next_used(g, it) IN
       IF r.ret # OK THEN r.ret
       ELSE dir_contains_loop(g, r.it, name, fuel - 1)

\* (the slip: a name is never found in the directory)
dir_contains_none(g, cluster_nr, name) == "ENOENT"

dir_contains(g, cluster_nr, name) ==
  LET r == dir_iter_init(g, cluster_nr) IN
  IF r.ret # OK THEN r.ret ELSE dir_contains_loop(g, r.it, name, Fuel(g))

\* Outcome of an operation on the handle: the error (OK on success), the
\* handle afterwards and a value.
Res(ret, g, val) == [ret |-> ret, g |-> g, val |-> val]

\* --------------------------------------------------------------- allocator
RECURSIVE alloc_undo(_, _, _, _)
alloc_undo(g, pos, alloc, ret) ==
  IF alloc <= 0 THEN Res(ret, g, 0)
  ELSE IF cluster_get_ret(g, pos) # OK THEN Res(cluster_get_ret(g, pos), g, 0)
  ELSE LET c == g.clusters[pos] IN
       alloc_undo([g EXCEPT !.clusters[pos] = mark_cluster([c EXCEPT !.used = 0]),
                            !.free = (@ + 1) % U16],
                  c.next, alloc - 1, ret)

RECURSIVE alloc_loop(_, _, _, _, _, _, _)
alloc_loop(g, count, zero, prev, first, pos, alloc) ==
  IF alloc >= count THEN Res(OK, [g EXCEPT !.clusters[prev].next = 0], first)
  ELSE IF pos >= g.count THEN alloc_undo(g, first, alloc, "ENOSPC")
  ELSE LET c == g.clusters[pos] IN
       IF c.used = 0
       THEN LET c1 == mark_cluster([c EXCEPT !.data = IF zero THEN ZeroData ELSE @, !.used = 1])
                g1 == [g EXCEPT !.clusters[pos] = c1, !.free = (@ - 1) % U16]
                g2 == IF first = 0 THEN g1 ELSE [g1 EXCEPT !.clusters[prev].next = pos]
            IN alloc_loop(g2, count, zero, pos, IF first = 0 THEN pos ELSE first, pos + 1, alloc + 1)
       ELSE alloc_loop(g, count, zero, prev, first, pos + 1, alloc)

\* val is the number of the first cluster of the new chain
\* (the slip: the clusters taken are not zeroed)
alloc_clusters_stale(g, count, zero) == alloc_loop(g, count, FALSE, 0, 0, 1, 0)

alloc_clusters(g, count, zero) == alloc_loop(g, count, zero, 0, 0, 1, 0)

RECURSIVE free_loop(_, _, _)
free_loop(g, nr, fuel) ==
  IF fuel = 0 THEN Res(HANG, g, 0)
  ELSE LET c == g.clusters[nr]
           g1 == [g EXCEPT !.clusters[nr] = mark_cluster([c EXCEPT !.used = 0]),
                           !.free = (@ + 1) % U16]
       IN IF c.next = 0 THEN Res(OK, g1, 0)
          ELSE IF cluster_get_ret(g1, c.next) # OK THEN Res(cluster_get_ret(g1, c.next), g1, 0)
          ELSE free_loop(g1, c.next, fuel - 1)

\* (the slip: the clusters are released and free_clusters is not counted up)
free_clusters_keep(g, nr) == [free_loop(g, nr, g.count + 1) EXCEPT !.g.free = g.free]

\* free_clusters(gfs, c), c the cached cluster number nr
free_clusters(g, nr) == free_loop(g, nr, g.count + 1)

\* -------------------------------------------------------- directory engine
\* the payload d with cell i set to v
SetCell(d, i, v) == [d EXCEPT ![i] = v]

\* strcpy(e->filename, name): the characters and the terminating NUL
strcpy(d, k, name) ==
  [i \in 0..(CLUSTER_DATA - 1) |->
     IF i >= k * ENTRY_SIZE /\ i <= k * ENTRY_SIZE + Len(name)
     THEN (IF i - k * ENTRY_SIZE < Len(name) THEN name[i - k * ENTRY_SIZE + 1] ELSE 0)
     ELSE d[i]]

SetESize(d, k, v) == SetCell(d, k * ENTRY_SIZE + FILENAME_SIZE, v)

SetECluster(d, k, v) == SetCell(d, k * ENTRY_SIZE + FILENAME_SIZE + 1, v)

\* val is the iterator of the new entry
create_entry(g, path, is_dir) ==
  Let1(dir_iter_lookup(g, path, TRUE), LAMBDA lk :
  IF lk.ret # OK THEN Res(lk.ret, g, lk.it)
  ELSE IF ~dir_entry_is_directory(EntSize(g, lk.it)) THEN Res("ENOTDIR", g, lk.it)
  ELSE
  Let1(last_component(path), LAMBDA name :
  IF Len(name) > FILENAME_SIZE - 1 THEN Res("ENAMETOOLONG", g, lk.it)
  ELSE IF name = <<>> THEN Res("EINVAL", g, lk.it)
  ELSE
  Let1(dir_contains(g, EntCluster(g, lk.it), name), LAMBDA dc :
  IF dc = OK THEN Res("EEXIST", g, lk.it)
  ELSE IF dc = HANG THEN Res(HANG, g, lk.it)
  ELSE
  Let1(find_empty_entry(g, EntCluster(g, lk.it)), LAMBDA fe :
  IF fe.ret # OK /\ fe.ret # "ENOENT" THEN Res(fe.ret, g, lk.it)
  ELSE
  Let1(fe.ret = "ENOENT", LAMBDA extended :
  Let1(IF extended THEN alloc_clusters(g, 1, TRUE) ELSE Res(OK, g, 0), LAMBDA ext :
  IF ext.ret # OK THEN Res(ext.ret, ext.g, lk.it)
  ELSE
  Let1(IF extended THEN find_empty_entry(ext.g, ext.val).it ELSE fe.it, LAMBDA it2 :
  Let1(IF extended
       THEN [ext.g EXCEPT !.clusters[fe.it.cl] = mark_cluster([@ EXCEPT !.next = ext.val])]
       ELSE g, LAMBDA g1 :
  Let1(IF is_dir THEN alloc_clusters(g1, 1, TRUE) ELSE Res(OK, g1, 0), LAMBDA dirc :
  IF dirc.ret # OK
  THEN IF extended
       THEN Let1(free_clusters(dirc.g, ext.val), LAMBDA fr :
                 Res(IF fr.ret = HANG THEN HANG ELSE dirc.ret,
                     [fr.g EXCEPT !.clusters[fe.it.cl].next = 0], lk.it))
       ELSE Res(dirc.ret, dirc.g, lk.it)
  ELSE
  Let1(dirc.g.clusters[it2.cl], LAMBDA c :
  Res(OK,
      [dirc.g EXCEPT !.clusters[it2.cl] =
         mark_cluster([c EXCEPT !.data =
            SetECluster(SetESize(strcpy(c.data, it2.nr, name), it2.nr, dir_entry_set_size(0, is_dir)),
                        it2.nr, dirc.val)])],
      it2)))))))))))

\* filename[0] = '\0' on the entry of iterator it, and mark_cluster(it.cluster)
ClearName(g, it) ==
  [g EXCEPT !.clusters[it.cl] =
     mark_cluster([@ EXCEPT !.data = SetCell(@, it.nr * ENTRY_SIZE, 0)])]

remove_entry(g, path, is_dir) ==
  Let1(dir_iter_lookup(g, path, FALSE), LAMBDA lk :
  IF lk.ret # OK THEN Res(lk.ret, g, 0)
  ELSE IF lk.it.root THEN Res("EINVAL", g, 0)
  ELSE IF is_dir # dir_entry_is_directory(EntSize(g, lk.it))
  THEN Res(IF is_dir THEN "ENOTDIR" ELSE "EISDIR", g, 0)
  ELSE IF EntCluster(g, lk.it) = 0 THEN Res(OK, ClearName(g, lk.it), 0)
  ELSE
  Let1(dir_iter_init(g, EntCluster(g, lk.it)), LAMBDA ini :
  IF ini.ret # OK THEN Res(ini.ret, g, 0)
  ELSE IF is_dir /\ dir_entry_used(EntName(g, ini.it)) THEN Res("ENOTEMPTY", g, 0)
  ELSE
  Let1(IF is_dir THEN dir_iter_next_used(g, ini.it).ret ELSE "ENOENT", LAMBDA nu :
  IF nu # "ENOENT" THEN Res(IF nu = OK THEN "ENOTEMPTY" ELSE nu, g, 0)
  ELSE
  Let1(free_clusters(g, ini.it.cl), LAMBDA fr :
  IF fr.ret = HANG THEN Res(HANG, fr.g, 0)
  ELSE Res(OK, ClearName(fr.g, lk.it), 0)))))

\* ------------------------------------------------------------- file engine
size_to_clusters(size) == size \div CLUSTER_DATA + (IF size % CLUSTER_DATA # 0 THEN 1 ELSE 0)

\* cluster_at: val is the number of the cluster at position index of the chain from nr
RECURSIVE cluster_at_loop(_, _, _, _, _)
cluster_at_loop(g, nr, index, i, c) ==
  IF i > index THEN [ret |-> OK, val |-> c]
  ELSE IF nr = 0 THEN [ret |-> "EIO", val |-> 0]
  ELSE IF cluster_get_ret(g, nr) # OK THEN [ret |-> cluster_get_ret(g, nr), val |-> 0]
  ELSE cluster_at_loop(g, g.clusters[nr].next, index, i + 1, nr)

cluster_at(g, nr, index) == cluster_at_loop(g, nr, index, 0, 0)

\* (the slip: the rest of the last cluster is left as it is)
ZeroTail_keep(d, from) == d

\* memset(c->data + from, 0, CLUSTER_DATA - from)
ZeroTail(d, from) == [i \in 0..(CLUSTER_DATA - 1) |-> IF i >= from THEN 0 ELSE d[i]]

\* it->entry->size = ...; mark_cluster(it->cluster)
SetEntSize(g, it, v) ==
  [g EXCEPT !.clusters[it.cl] = mark_cluster([@ EXCEPT !.data = SetESize(@, it.nr, v)])]

do_truncate(g, it, new_size) ==
  IF new_size < 0 THEN Res("EINVAL", g, 0)
  ELSE IF new_size > FILESIZE_MAX THEN Res("EFBIG", g, 0)
  ELSE IF dir_entry_is_directory(EntSize(g, it)) THEN Res("EISDIR", g, 0)
  ELSE
  Let1(EntSize(g, it), LAMBDA size :
  Let1(size_to_clusters(min(size, new_size)), LAMBDA count :
  Let1(IF count # 0 THEN cluster_at(g, EntCluster(g, it), count - 1) ELSE [ret |-> OK, val |-> 0],
       LAMBDA ca :
  IF ca.ret # OK THEN Res(ca.ret, g, 0)
  ELSE
  Let1(IF count # 0 THEN g.clusters[ca.val].next ELSE EntCluster(g, it), LAMBDA next :
  IF new_size > size
  THEN Let1(IF size % CLUSTER_DATA # 0
            THEN [g EXCEPT !.clusters[ca.val] =
                    mark_cluster([@ EXCEPT !.data = ZeroTail(@, size % CLUSTER_DATA)])]
            ELSE g, LAMBDA g1 :
       Let1(size_to_clusters(new_size) - count, LAMBDA alloc :
       Let1(IF alloc # 0 THEN alloc_clusters(g1, alloc, TRUE) ELSE Res(OK, g1, 0), LAMBDA al :
       IF al.ret # OK THEN Res(al.ret, al.g, 0)
       ELSE Res(OK,
                SetEntSize(IF alloc = 0 THEN al.g
                           ELSE IF count # 0
                           THEN [al.g EXCEPT !.clusters[ca.val] = mark_cluster([@ EXCEPT !.next = al.val])]
                           ELSE [al.g EXCEPT !.clusters[it.cl].data = SetECluster(@, it.nr, al.val)],
                           it, dir_entry_set_size(new_size, FALSE)),
                0))))
  ELSE IF new_size < size /\ next # 0
  THEN Let1(IF count # 0
            THEN [g EXCEPT !.clusters[ca.val] = mark_cluster([@ EXCEPT !.next = 0])]
            ELSE g, LAMBDA g1 :
       IF cluster_get_ret(g1, next) # OK THEN Res(cluster_get_ret(g1, next), g1, 0)
       ELSE Let1(free_clusters(g1, next), LAMBDA fr :
            IF fr.ret = HANG THEN Res(HANG, fr.g, 0)
            ELSE Res(OK, SetEntSize(fr.g, it, dir_entry_set_size(new_size, FALSE)), 0)))
  ELSE Res(OK, SetEntSize(g, it, dir_entry_set_size(new_size, FALSE)), 0)))))

ghostfs_truncate(g, path, new_size) ==
  Let1(dir_iter_lookup(g, path, FALSE), LAMBDA lk :
  IF lk.ret # OK THEN Res(lk.ret, g, 0) ELSE do_truncate(g, lk.it, new_size))

\* val is the iterator the handle keeps
ghostfs_open(g, path) ==
  Let1(dir_iter_lookup(g, path, FALSE), LAMBDA lk :
  IF lk.ret # OK THEN Res(lk.ret, g, lk.it)
  ELSE IF dir_entry_is_directory(EntSize(g, lk.it)) THEN Res("EISDIR", g, lk.it)
  ELSE Res(OK, g, lk.it))

\* memcpy(c->data + offset, buf, w), buf the bytes of b from position at (0-based)
CopyIn(d, offset, b, at, w) ==
  [i \in 0..(CLUSTER_DATA - 1) |->
     IF i >= offset /\ i < offset + w THEN b[at + (i - offset) + 1] ELSE d[i]]

RECURSIVE write_loop(_, _, _, _, _, _)
write_loop(g, c, b, size, offset, written) ==
  LET w0 == min(size, CLUSTER_DATA)
      w == IF offset + w0 > CLUSTER_DATA THEN w0 - ((offset + w0) - CLUSTER_DATA) ELSE w0
      g1 == [g EXCEPT !.clusters[c] = mark_cluster([@ EXCEPT !.data = CopyIn(@, offset, b, written, w)])]
      nx == g1.clusters[c].next
  IN
  IF size - w = 0 THEN Res(OK, g1, written + w)
  ELSE IF nx = 0 THEN Res("EIO", g1, 0)
  ELSE IF cluster_get_ret(g1, nx) # OK THEN Res(cluster_get_ret(g1, nx), g1, 0)
  ELSE write_loop(g1, nx, b, size - w, 0, written + w)

\* ghostfs_write(gfs, gentry, buf, size, offset): it is gentry->it, b the size bytes of buf
ghostfs_write(g, it, b, offset) ==
  IF offset < 0 THEN Res("EINVAL", g, 0)
  ELSE
  Let1(IF EntSize(g, it) < offset + Len(b) THEN do_truncate(g, it, offset + Len(b)) ELSE Res(OK, g, 0),
       LAMBDA tr :
  IF tr.ret # OK THEN tr
  ELSE
  Let1(cluster_at(tr.g, EntCluster(tr.g, it), offset \div CLUSTER_DATA), LAMBDA ca :
  IF ca.ret # OK THEN Res(ca.ret, tr.g, 0)
  ELSE write_loop(tr.g, ca.val, b, Len(b), offset % CLUSTER_DATA, 0)))

RECURSIVE read_loop(_, _, _, _, _)
read_loop(g, c, size, offset, buf) ==
  LET r0 == min(size, CLUSTER_DATA)
      r == IF offset + r0 > CLUSTER_DATA THEN r0 - ((offset + r0) - CLUSTER_DATA) ELSE r0
      buf1 == buf \o [i \in 1..r |-> g.clusters[c].data[offset + i - 1]]
      nx == g.clusters[c].next
  IN
  IF size - r = 0 THEN [ret |-> OK, val |-> Len(buf1), buf |-> buf1]
  ELSE IF nx = 0 THEN [ret |-> "EIO", val |-> 0, buf |-> buf1]
  ELSE IF cluster_get_ret(g, nx) # OK THEN [ret |-> cluster_get_ret(g, nx), val |-> 0, buf |-> buf1]
  ELSE read_loop(g, nx, size - r, 0, buf1)

\* ghostfs_read: val is the count returned, buf the bytes stored into buf
ghostfs_read(g, it, size, offset) ==
  IF offset < 0 THEN [ret |-> "EINVAL", val |-> 0, buf |-> <<>>]
  ELSE IF offset > EntSize(g, it) THEN [ret |-> OK, val |-> 0, buf |-> <<>>]
  ELSE
  Let1(IF offset + size > EntSize(g, it) THEN EntSize(g, it) - offset ELSE size, LAMBDA sz :
  IF sz = 0 THEN [ret |-> OK, val |-> 0, buf |-> <<>>]
  ELSE
  Let1(cluster_at(g, EntCluster(g, it), offset \div CLUSTER_DATA), LAMBDA ca :
  IF ca.ret # OK THEN [ret |-> ca.ret, val |-> 0, buf |-> <<>>]
  ELSE read_loop(g, ca.val, sz, offset % CLUSTER_DATA, <<>>)))

\* (the slip: the new entry keeps the flag create_entry gave it, a file's)
ghostfs_rename_file(g, path, newpath) ==
  Let1(dir_iter_lookup(g, path, FALSE), LAMBDA lk :
  IF lk.ret # OK THEN Res(lk.ret, g, 0)
  ELSE IF lk.it.root THEN Res("EINVAL", g, 0)
  ELSE
  Let1(remove_entry(g, newpath, FALSE), LAMBDA rm :
  IF rm.ret = HANG THEN rm
  ELSE
  Let1(create_entry(rm.g, newpath, FALSE), LAMBDA ce :
  IF ce.ret # OK THEN Res(ce.ret, ce.g, 0)
  ELSE
  Let1(ClearName(ce.g, lk.it), LAMBDA g1 :
  Let1(SetESize(g1.clusters[ce.val.cl].data, ce.val.nr, EntSize(g1, lk.it) % DIRFLAG), LAMBDA d1 :
  Res(OK, [g1 EXCEPT !.clusters[ce.val.cl].data = SetECluster(d1, ce.val.nr, EntCluster(g1, lk.it))], 0))))))

\* ghostfs_rename: the old entry is looked up, the new one removed and made,
\* size and first cluster are copied
ghostfs_rename(g, path, newpath) ==
  Let1(dir_iter_lookup(g, path, FALSE), LAMBDA lk :
  IF lk.ret # OK THEN Res(lk.ret, g, 0)
  ELSE IF lk.it.root THEN Res("EINVAL", g, 0)
  ELSE
  Let1(remove_entry(g, newpath, FALSE), LAMBDA rm :
  IF rm.ret = HANG THEN rm
  ELSE
  Let1(create_entry(rm.g, newpath, FALSE), LAMBDA ce :
  IF ce.ret # OK THEN Res(ce.ret, ce.g, 0)
  ELSE
  Let1(ClearName(ce.g, lk.it), LAMBDA g1 :
  Let1(SetESize(g1.clusters[ce.val.cl].data, ce.val.nr, EntSize(g1, lk.it)), LAMBDA d1 :
  Res(OK, [g1 EXCEPT !.clusters[ce.val.cl].data = SetECluster(d1, ce.val.nr, EntCluster(g1, lk.it))], 0))))))

\* -------------------------------------------------- superblock & integrity
\* MD5 over the header and the 4096 bytes of a cluster (the dirty byte is one
\* of them); the digest is modelled as injective
MD5(hdr, cluster) == <<hdr, cluster>>

\* clusters that lie whole inside a store of this capacity
StoreClusters(cap) == IF cap < HEADER_SIZE THEN 0 ELSE (cap - HEADER_SIZE) \div CLUSTER_SIZE

\* stegger_write(gfs->stegger, cluster, CLUSTER_SIZE, ...): all bytes of the
\* cluster as they are in memory
stegger_write_cluster(d, c, nr) == [d EXCEPT !.cl[nr] = c]

\* write_header as format and sync use it: the digest, the header, cluster 0
write_header(d, hdr, cluster0) ==
  stegger_write_cluster([d EXCEPT !.md5 = MD5(hdr, cluster0), !.hdr = hdr], cluster0, 0)

\* filename[0] = '\0' for every entry of the payload
ClearNames(data) ==
  [i \in 0..(CLUSTER_DATA - 1) |-> IF i % ENTRY_SIZE = 0 THEN 0 ELSE data[i]]

ghostfs_format(d) ==
  IF d.cap < HEADER_SIZE + CLUSTER_SIZE THEN [ret |-> "ENOSPC", d |-> d]
  ELSE
  LET count == min((d.cap - HEADER_SIZE) \div CLUSTER_SIZE, COUNT_MAX)
      c0 == [read_cluster(d, 0) EXCEPT !.next = 0, !.data = ClearNames(@)]
      d1 == write_header(d, count, c0)
      d2 == [d1 EXCEPT !.cl = [i \in DOMAIN d1.cl |->
                 IF i >= 1 /\ i < count THEN [read_cluster(d1, i) EXCEPT !.used = 0] ELSE d1.cl[i]]]
  IN [ret |-> OK, d |-> d2]

ghostfs_check(d) ==
  IF d.cap < HEADER_SIZE + CLUSTER_SIZE THEN "ERANGE"
  ELSE IF MD5(d.hdr, d.cl[0]) = d.md5 THEN OK ELSE "EIO"

\* the handle when nothing is mounted
NoFs == [count |-> 0, clusters |-> <<>>, loaded |-> {}, free |-> 0]

ghostfs_mount(d) ==
  IF ghostfs_check(d) # OK THEN [ret |-> ghostfs_check(d), g |-> NoFs]
  ELSE
  LET count == d.hdr
      cls == [i \in 0..(count - 1) |-> IF i >= 1 THEN read_cluster(d, i) ELSE ZeroCluster]
  IN [ret |-> OK,
      g |-> [count |-> count, clusters |-> cls, loaded |-> 1..(count - 1),
             free |-> Cardinality({i \in 1..(count - 1) : cls[i].used = 0})]]

\* (the slip: only the superblock and cluster 0 are written back)
ghostfs_sync_header(g, d) ==
  LET g0 == cluster_get(g, d, 0) IN
  [ret |-> OK, g |-> g0, d |-> write_header(d, g0.count, g0.clusters[0])]

\* (the slip: the dirty byte is cleared in the image before it is written)
ghostfs_sync_clean(g, d) ==
  LET g0 == cluster_get(g, d, 0)
      d1 == write_header(d, g0.count, unmark_cluster(g0.clusters[0]))
      wr == {i \in 1..(g0.count - 1) : i \in g0.loaded /\ is_dirty(g0.clusters[i])}
      d2 == [d1 EXCEPT !.cl = [i \in DOMAIN d1.cl |->
                 IF i \in wr THEN unmark_cluster(g0.clusters[i]) ELSE d1.cl[i]]]
      g1 == [g0 EXCEPT !.clusters = [i \in DOMAIN g0.clusters |->
                 IF i = 0 \/ i \in wr THEN unmark_cluster(g0.clusters[i]) ELSE g0.clusters[i]]]
  IN [ret |-> OK, g |-> g1, d |-> d2]

\* ghostfs_sync: the store and the handle afterwards
ghostfs_sync(g, d) ==
  LET g0 == cluster_get(g, d, 0)
      d1 == write_header(d, g0.count, g0.clusters[0])
      wr == {i \in 1..(g0.count - 1) : i \in g0.loaded /\ is_dirty(g0.clusters[i])}
      d2 == [d1 EXCEPT !.cl = [i \in DOMAIN d1.cl |-> IF i \in wr THEN g0.clusters[i] ELSE d1.cl[i]]]
      g1 == [g0 EXCEPT !.clusters = [i \in DOMAIN g0.clusters |->
                 IF i = 0 \/ i \in wr THEN unmark_cluster(g0.clusters[i]) ELSE g0.clusters[i]]]
  IN [ret |-> OK, g |-> g1, d |-> d2]

ghostfs_statvfs(g) == [f_bsize |-> CLUSTER_SIZE, f_blocks |-> g.count, f_bfree |-> g.free]

\* strlen of a filename field; FILENAME_SIZE when no cell of it is 0
StrLen(name) ==
  IF \A i \in 0..(FILENAME_SIZE - 1) : name[i] # 0 THEN FILENAME_SIZE
  ELSE CHOOSE n \in 0..(FILENAME_SIZE - 1) : name[n] = 0 /\ \A i \in 0..(n - 1) : name[i] # 0

\* the filename field as a string
CStr(name) == [i \in 1..StrLen(name) |-> name[i - 1]]

\* ghostfs_getattr: the kind and st_size
ghostfs_getattr(g, filename) ==
  LET lk == dir_iter_lookup(g, filename, FALSE) IN
  IF lk.ret # OK THEN [ret |-> lk.ret, val |-> 0]
  ELSE IF dir_entry_is_directory(EntSize(g, lk.it)) THEN [ret |-> OK, val |-> CLUSTER_SIZE]
  ELSE [ret |-> OK, val |-> EntSize(g, lk.it)]

\* a struct ghostfs_entry: calloc leaves it.gfs NULL until the first next_entry
DirHandle(it, started) == [open |-> FALSE, dir |-> TRUE, it |-> it, gfs |-> started]

ghostfs_opendir(g, path) ==
  LET lk == dir_iter_lookup(g, path, FALSE) IN
  IF lk.ret # OK THEN [ret |-> lk.ret, entry |-> DirHandle(lk.it, FALSE)]
  ELSE IF ~dir_entry_is_directory(EntSize(g, lk.it))
  THEN [ret |-> "ENOTDIR", entry |-> DirHandle(lk.it, FALSE)]
  ELSE [ret |-> OK, entry |-> DirHandle(lk.it, FALSE)]

ghostfs_next_entry(g, entry) ==
  IF ~entry.gfs
  THEN LET r == dir_iter_init(g, EntCluster(g, entry.it)) IN
       IF r.ret # OK THEN [ret |-> r.ret, entry |-> entry]
       ELSE IF dir_entry_used(EntName(g, r.it)) THEN [ret |-> OK, entry |-> DirHandle(r.it, TRUE)]
       ELSE LET n == dir_iter_next_used(g, r.it) IN [ret |-> n.ret, entry |-> DirHandle(n.it, TRUE)]
  ELSE LET n == dir_iter_next_used(g, entry.it) IN [ret |-> n.ret, entry |-> DirHandle(n.it, TRUE)]

\* ------------------------------------------------ the structure of a volume
\* The clusters met from cluster nr by following next, as cluster_get_next
\* does: end is "nil" at a next of 0, "range" at a number cluster_get rejects,
\* "cycle" at a cluster met before.  first = 0 is the empty chain of a file.
RECURSIVE Walk(_, _, _)
Walk(g, nr, seen) ==
  IF nr >= g.count THEN [seq |-> seen, end |-> "range"]
  ELSE IF \E i \in 1..Len(seen) : seen[i] = nr THEN [seq |-> seen, end |-> "cycle"]
  ELSE IF g.clusters[nr].next = 0 THEN [seq |-> Append(seen, nr), end |-> "nil"]
  ELSE Walk(g, g.clusters[nr].next, Append(seen, nr))

\* the chain of a file entry: entry->cluster 0 is no cluster at all
FileChain(g, first) == IF first = 0 THEN [seq |-> <<>>, end |-> "nil"] ELSE Walk(g, first, <<>>)

\* the chain of a directory: cluster 0 for the root
DirChain(g, first) == Walk(g, first, <<>>)

SeqSet(s) == {s[i] : i \in 1..Len(s)}

\* the used entries dir_iter_next_used yields in the directory that starts at first
DirEntries(g, first) ==
  {Iter(cl, nr) : cl \in SeqSet(DirChain(g, first).seq), nr \in 0..(CLUSTER_DIRENTS - 1)}

UsedEntries(g, first) == {it \in DirEntries(g, first) : dir_entry_used(EntName(g, it))}

\* the used entries that lookups from the root can arrive at
RECURSIVE ReachLoop(_, _, _)
ReachLoop(g, set, fuel) ==
  LET more == UNION {UsedEntries(g, EntCluster(g, it)) :
                       it \in {e \in set : dir_entry_is_directory(EntSize(g, e))}}
  IN IF fuel = 0 \/ more \subseteq set THEN set ELSE ReachLoop(g, set \cup more, fuel - 1)

Reach(g) == ReachLoop(g, UsedEntries(g, 0), Fuel(g))

\* the chain an entry owns
EntChain(g, it) ==
  IF dir_entry_is_directory(EntSize(g, it)) THEN DirChain(g, EntCluster(g, it))
  ELSE FileChain(g, EntCluster(g, it))

\* the clusters of the root directory after cluster 0
RootExt(g) == SeqSet(DirChain(g, 0).seq) \ {0}

\* every cluster some reachable chain goes through
Owned(g) == RootExt(g) \cup UNION {SeqSet(EntChain(g, it).seq) : it \in Reach(g)}

Unused(g) == {i \in 1..(g.count - 1) : g.clusters[i].used = 0}

\* free_clusters counts the unused clusters
CounterOK(g) == g.free = Cardinality(Unused(g))

\* no chain goes through a cluster that is not in use
ChainsUsed(g) ==
  /\ \A c \in RootExt(g) : g.clusters[c].used # 0
  /\ \A it \in Reach(g) : \A c \in SeqSet(EntChain(g, it).seq) : g.clusters[c].used # 0

\* a file's chain has the clusters its size needs and ends at a next of 0
LengthOK(g) ==
  \A it \in Reach(g) : ~dir_entry_is_directory(EntSize(g, it)) =>
     /\ FileChain(g, EntCluster(g, it)).end = "nil"
     /\ Len(FileChain(g, EntCluster(g, it)).seq) = size_to_clusters(EntSize(g, it))

\* every chain ends, and no cluster is on two chains
ChainsApart(g) ==
  /\ DirChain(g, 0).end = "nil"
  /\ \A it \in Reach(g) :
       /\ EntChain(g, it).end = "nil"
       /\ SeqSet(EntChain(g, it).seq) \cap SeqSet(DirChain(g, 0).seq) = {}
       /\ \A jt \in Reach(g) \ {it} : SeqSet(EntChain(g, it).seq) \cap SeqSet(EntChain(g, jt).seq) = {}

\* every cluster in use is on a chain
NoLeak(g) == \A c \in 1..(g.count - 1) : g.clusters[c].used # 0 => c \in Owned(g)

\* the data-model invariants of a volume, together
\* (CounterOK, ChainsUsed, LengthOK, ChainsApart and NoLeak over one walk of the tree)
Sound(g) ==
  LET R == Reach(g)
      root == DirChain(g, 0)
      ch == [it \in R |-> EntChain(g, it)]
      own == SeqSet(root.seq) \cup UNION {SeqSet(ch[it].seq) : it \in R}
  IN /\ CounterOK(g)
     /\ root.end = "nil"
     /\ \A it \in R : ch[it].end = "nil"
     /\ \A c \in own \ {0} : g.clusters[c].used # 0
     /\ \A c \in 1..(g.count - 1) : g.clusters[c].used # 0 => c \in own
     /\ \A it \in R : dir_entry_is_directory(EntSize(g, it)) \/ Len(ch[it].seq) = size_to_clusters(EntSize(g, it))
     /\ \A it \in R : SeqSet(ch[it].seq) \cap SeqSet(root.seq) = {}
     /\ \A it \in R : \A jt \in R \ {it} : SeqSet(ch[it].seq) \cap SeqSet(ch[jt].seq) = {}

\* ==================================================================== state
VARIABLES
  disk,     \* the backing store: capacity, digest, header, clusters
  gfs,      \* struct ghostfs: cluster_count, the cluster cache, free_clusters
  mounted,  \* a handle returned by ghostfs_mount is live
  handles,  \* the struct ghostfs_entry records the caller holds
  last,     \* the last call: its name, its result and the count it returned
  hung,     \* a call is in a loop that never ends
  broken,   \* the mounted volume is not Sound
  aftermath \* the calls that changed the volume while it was broken

vars == <<disk, gfs, mounted, handles, last, hung, broken, aftermath>>

\* ------------------------------------------------------------------- inputs
A == <<1>>
B == <<2>>
C == <<3>>
AA == <<1, 1>>

\* "/a", "/b", "/c", "/a/a"
Paths == {<< <<>>, A >>, << <<>>, B >>, << <<>>, C >>, << <<>>, A, A >>}

\* "/a", "/a/a": the directories; "/b", "/aa": the files
DirNames == {<< <<>>, A >>, << <<>>, A, A >>}

FileNames == {<< <<>>, B >>, << <<>>, AA >>}

\* and "/a//b", a path with an empty component
NamePaths == DirNames \cup FileNames \cup {<< <<>>, A, <<>>, B >>}

\* "/a", "/b", "/c"
RootPaths == {<< <<>>, A >>, << <<>>, B >>, << <<>>, C >>}

\* "/a", "/b"
IOPaths == {<< <<>>, A >>, << <<>>, B >>}

\* "/a", "/a/a"
StorePaths == {<< <<>>, A >>, << <<>>, A, A >>}

\* "/", "/a/", "/aaa", "/a/aaa" and "/a/b" with the paths of the root
AAA == <<1, 1, 1>>
RejectPaths ==
  RootPaths \cup {<< <<>>, <<>> >>, << <<>>, A, <<>> >>, << <<>>, AAA >>,
                  << <<>>, A, AAA >>, << <<>>, A, B >>}

\* "/a", "/b" and "/"
PathA == << <<>>, A >>
PathB == << <<>>, B >>
PathRoot == << <<>>, <<>> >>

\* "/a" and three entries in it
InA == {<< <<>>, A, A >>, << <<>>, A, B >>, << <<>>, A, C >>}

\* sizes given to truncate: no cluster, one, two, and more than a volume holds
Sizes == {0, 1, CLUSTER_DATA + 1, 2 * CLUSTER_DATA + 1}

StoreSizes == {0, 1}

\* buffers and offsets given to write
Bufs == {<<>>, <<2>>, <<3, 3>>}

Offsets == {0, CLUSTER_DATA - 1, CLUSTER_DATA}

\* capacities of the carriers: one cluster, and MaxClusters clusters
Capacities == {HEADER_SIZE + CLUSTER_SIZE, HEADER_SIZE + MaxClusters * CLUSTER_SIZE}

Closed == [open |-> FALSE, it |-> Iter(0, 0)]

Call(op, ret, val) == [op |-> op, ret |-> ret, val |-> val]

Blank(cap, junk) ==
  [cap |-> cap, md5 |-> <<>>, hdr |-> junk.next,
   cl |-> [i \in 0..(StoreClusters(cap) - 1) |-> junk]]

Init ==
  /\ \E cap \in Capacities, junk \in {JunkCluster} : disk = Blank(cap, junk)
  /\ gfs = NoFs
  /\ mounted = FALSE
  /\ handles = [h \in 1..MaxHandles |-> Closed]
  /\ last = Call("none", OK, 0)
  /\ hung = FALSE
  /\ broken = FALSE
  /\ aftermath = 0

\* the handle with cluster 0 in the cache, as every lookup leaves it
View == cluster_get(gfs, disk, 0)

\* the caller may make a call on the mounted filesystem
Ready == mounted /\ ~hung /\ (~broken \/ aftermath < MaxAftermath)

\* a call left the handle g: a call that changed a broken volume is counted
After(g) ==
  /\ aftermath' = IF g # View /\ broken THEN aftermath + 1 ELSE aftermath
  /\ broken' = IF g = View THEN broken ELSE ~Sound(cluster_get(g, disk, 0))

\* dir_iter_lookup's dir_iter_init(gfs, it, 0) brings cluster 0 into the cache
Enter(path) == IF Absolute(path) THEN cluster_get(gfs, disk, 0) ELSE gfs

\* A call returned r (or never returns)
Return(op, r) ==
  IF r.ret = HANG
  THEN hung' = TRUE /\ UNCHANGED <<gfs, last, broken, aftermath>>
  ELSE gfs' = r.g /\ last' = Call(op, r.ret, 0) /\ After(r.g) /\ UNCHANGED hung

\* ------------------------------------------------------------------ actions
Format ==
  /\ ~mounted
  /\ LET r == ghostfs_format(disk) IN
     /\ disk' = r.d
     /\ last' = Call("format", r.ret, 0)
     /\ aftermath' = IF r.ret = OK THEN 0 ELSE aftermath
  /\ UNCHANGED <<gfs, mounted, handles, hung, broken>>

Mount ==
  /\ ~mounted
  /\ LET r == ghostfs_mount(disk) IN
     /\ gfs' = r.g
     /\ mounted' = (r.ret = OK)
     /\ last' = Call("mount", r.ret, 0)
     /\ broken' = (r.ret = OK /\ ~Sound(cluster_get(r.g, disk, 0)))
  /\ UNCHANGED <<disk, handles, hung, aftermath>>

Sync ==
  /\ Ready
  /\ LET r == ghostfs_sync(gfs, disk) IN
     /\ gfs' = r.g
     /\ disk' = r.d
     /\ last' = Call("sync", r.ret, 0)
  /\ UNCHANGED <<mounted, handles, hung, broken, aftermath>>

Umount ==
  /\ mounted /\ ~hung
  /\ disk' = ghostfs_sync(gfs, disk).d
  /\ gfs' = NoFs
  /\ mounted' = FALSE
  /\ handles' = [h \in 1..MaxHandles |-> Closed]
  /\ last' = Call("umount", OK, 0)
  /\ broken' = FALSE
  /\ UNCHANGED <<hung, aftermath>>

Create(path) ==
  /\ Ready
  /\ Return("create", create_entry(Enter(path), path, FALSE))
  /\ UNCHANGED <<disk, mounted, handles>>

Mkdir(path) ==
  /\ Ready
  /\ Return("mkdir", create_entry(Enter(path), path, TRUE))
  /\ UNCHANGED <<disk, mounted, handles>>

Unlink(path) ==
  /\ Ready
  /\ Return("unlink", remove_entry(Enter(path), path, FALSE))
  /\ UNCHANGED <<disk, mounted, handles>>

Rmdir(path) ==
  /\ Ready
  /\ Return("rmdir", remove_entry(Enter(path), path, TRUE))
  /\ UNCHANGED <<disk, mounted, handles>>

\* (the slip: truncate writes the clusters it changed through to the store)
Truncate_through(path, size) ==
  /\ Ready
  /\ LET r == ghostfs_truncate(Enter(path), path, size) IN
     /\ Return("truncate", r)
     /\ disk' = IF r.ret = OK THEN ghostfs_sync(r.g, disk).d ELSE disk
  /\ UNCHANGED <<mounted, handles>>

Truncate(path, size) ==
  /\ Ready
  /\ Return("truncate", ghostfs_truncate(Enter(path), path, size))
  /\ UNCHANGED <<disk, mounted, handles>>

Rename(path, newpath) ==
  /\ Ready
  /\ Return("rename", ghostfs_rename(Enter(path), path, newpath))
  /\ UNCHANGED <<disk, mounted, handles>>

Open(h, path) ==
  /\ Ready
  /\ ~handles[h].open
  /\ LET r == ghostfs_open(Enter(path), path) IN
     /\ Return("open", r)
     /\ handles' = IF r.ret = OK THEN [handles EXCEPT ![h] = [open |-> TRUE, it |-> r.val]]
                   ELSE handles
  /\ UNCHANGED <<disk, mounted>>

Release(h) ==
  /\ Ready
  /\ handles[h].open
  /\ handles' = [handles EXCEPT ![h] = Closed]
  /\ last' = Call("release", OK, 0)
  /\ UNCHANGED <<disk, gfs, mounted, hung, broken, aftermath>>

Write(h, b, offset) ==
  /\ Ready
  /\ handles[h].open
  /\ LET r == ghostfs_write(gfs, handles[h].it, b, offset) IN
     IF r.ret = HANG
     THEN hung' = TRUE /\ UNCHANGED <<gfs, last, broken, aftermath>>
     ELSE gfs' = r.g /\ last' = Call("write", r.ret, r.val) /\ After(r.g) /\ UNCHANGED hung
  /\ UNCHANGED <<disk, mounted, handles>>

Read(h, size, offset) ==
  /\ Ready
  /\ handles[h].open
  /\ LET r == ghostfs_read(gfs, handles[h].it, size, offset) IN
     last' = Call("read", r.ret, r.val)
  /\ UNCHANGED <<disk, gfs, mounted, handles, hung, broken, aftermath>>

Getattr(path) ==
  /\ Ready
  /\ LET r == ghostfs_getattr(Enter(path), path) IN
     /\ r.ret # HANG
     /\ last' = Call("getattr", r.ret, r.val)
  /\ gfs' = Enter(path)
  /\ UNCHANGED <<disk, mounted, handles, hung, broken, aftermath>>

Statvfs ==
  /\ Ready
  /\ last' = Call("statvfs", OK, ghostfs_statvfs(gfs).f_bfree)
  /\ UNCHANGED <<disk, gfs, mounted, handles, hung, broken, aftermath>>

Opendir(h, path) ==
  /\ Ready
  /\ handles[h] = Closed
  /\ LET r == ghostfs_opendir(Enter(path), path) IN
     /\ r.ret # HANG
     /\ handles' = IF r.ret = OK THEN [handles EXCEPT ![h] = r.entry] ELSE handles
     /\ last' = Call("opendir", r.ret, 0)
  /\ gfs' = Enter(path)
  /\ UNCHANGED <<disk, mounted, hung, broken, aftermath>>

NextEntry(h) ==
  /\ Ready
  /\ "dir" \in DOMAIN handles[h]
  /\ LET r == ghostfs_next_entry(gfs, handles[h]) IN
     /\ r.ret # HANG
     /\ handles' = [handles EXCEPT ![h] = r.entry]
     /\ last' = Call("next_entry", r.ret, IF r.ret = OK THEN EntName(gfs, r.entry.it)[0] ELSE 0)
  /\ UNCHANGED <<disk, gfs, mounted, hung, broken, aftermath>>

Closedir(h) ==
  /\ Ready
  /\ "dir" \in DOMAIN handles[h]
  /\ handles' = [handles EXCEPT ![h] = Closed]
  /\ last' = Call("closedir", OK, 0)
  /\ UNCHANGED <<disk, gfs, mounted, hung, broken, aftermath>>

\* Files of the root directory: they are made, resized, renamed and removed.
NextFiles ==
  \/ Format
  \/ Mount
  \/ \E p \in RootPaths : Create(p)
  \/ \E p \in IOPaths : Unlink(p)
  \/ \E p \in IOPaths, n \in Sizes : Truncate(p, n)
  \/ \E p \in IOPaths, q \in IOPaths : Rename(p, q)

SpecFiles == Init /\ [][NextFiles]_vars

\* The directory tree: entries are made, renamed and removed, no file has content.
NextDirs ==
  \/ Format
  \/ Mount
  \/ \E p \in Paths : Create(p)
  \/ \E p \in Paths : Mkdir(p)
  \/ \E p \in Paths : Unlink(p)
  \/ \E p \in Paths : Rmdir(p)
  \/ \E p \in Paths, q \in Paths : Rename(p, q)

SpecDirs == Init /\ [][NextDirs]_vars

\* Names: one is the start of another, one path has an empty component.
NextNames ==
  \/ Format
  \/ Mount
  \/ \E p \in NamePaths : Create(p)
  \/ \E p \in DirNames : Mkdir(p)
  \/ \E p \in FileNames : Unlink(p)
  \/ \E p \in DirNames : Rmdir(p)
  \/ \E p \in FileNames, q \in FileNames : Rename(p, q)

SpecNames == Init /\ [][NextNames]_vars

\* Requests that are to be refused: a final component that is empty or too
\* long, a parent that is a file, a name that is taken.
NextReject ==
  \/ Format
  \/ Mount
  \/ \E p \in RejectPaths : Create(p)
  \/ \E p \in RejectPaths : Mkdir(p)
  \/ \E p \in RootPaths : Unlink(p)
  \/ \E p \in RootPaths : Rmdir(p)

SpecReject == Init /\ [][NextReject]_vars

\* Every public call on a mounted volume whose store is written by sync.
NextBuffer ==
  \/ Format
  \/ Mount
  \/ Sync
  \/ Create(PathA)
  \/ Mkdir(PathA)
  \/ Unlink(PathA)
  \/ Rmdir(PathA)
  \/ Truncate(PathA, 1)
  \/ Rename(PathA, PathB)
  \/ \E h \in 1..MaxHandles : Open(h, PathA)
  \/ \E h \in 1..MaxHandles : Release(h)
  \/ \E h \in 1..MaxHandles : Write(h, <<2>>, 0)
  \/ \E h \in 1..MaxHandles : Read(h, 1, 0)
  \/ Getattr(PathA)
  \/ Statvfs
  \/ \E h \in 1..MaxHandles : Opendir(h, PathRoot)
  \/ \E h \in 1..MaxHandles : NextEntry(h)
  \/ \E h \in 1..MaxHandles : Closedir(h)

\* a carrier of two clusters: the root directory and one cluster to allocate
InitBuffer ==
  /\ disk = Blank(HEADER_SIZE + 2 * CLUSTER_SIZE, JunkCluster)
  /\ gfs = NoFs
  /\ mounted = FALSE
  /\ handles = [h \in 1..MaxHandles |-> Closed]
  /\ last = Call("none", OK, 0)
  /\ hung = FALSE
  /\ broken = FALSE
  /\ aftermath = 0

SpecBuffer == InitBuffer /\ [][NextBuffer]_vars

\* A directory that is filled beyond its first cluster, emptied and removed.
NextRmdir ==
  \/ Format
  \/ Mount
  \/ \E p \in {PathA} \cup InA : Create(p)
  \/ \E p \in {PathA, << <<>>, A, A >>} : Mkdir(p)
  \/ \E p \in {PathA} \cup InA : Unlink(p)
  \/ \E p \in {PathA, << <<>>, A, A >>} : Rmdir(p)

SpecRmdir == Init /\ [][NextRmdir]_vars

\* One file that is written, cut, lengthened and removed.
NextGrow ==
  \/ Format
  \/ Mount
  \/ Create(PathA)
  \/ Unlink(PathA)
  \/ \E n \in Sizes : Truncate(PathA, n)
  \/ \E h \in 1..MaxHandles : Open(h, PathA)
  \/ \E h \in 1..MaxHandles : Release(h)
  \/ \E h \in 1..MaxHandles, b \in Bufs, o \in Offsets : Write(h, b, o)

SpecGrow == Init /\ [][NextGrow]_vars

\* Reads and writes through handles.
NextIO ==
  \/ Format
  \/ Mount
  \/ \E p \in IOPaths : Create(p)
  \/ \E h \in 1..MaxHandles, p \in IOPaths : Open(h, p)
  \/ \E h \in 1..MaxHandles : Release(h)
  \/ \E h \in 1..MaxHandles, b \in Bufs, o \in Offsets : Write(h, b, o)
  \/ \E h \in 1..MaxHandles, o \in Offsets : Read(h, FILESIZE_MAX, o)

SpecIO == Init /\ [][NextIO]_vars

\* The store: changes are written back, the volume is unmounted and mounted again.
NextStore ==
  \/ Format
  \/ Mount
  \/ Sync
  \/ Umount
  \/ \E p \in StorePaths : Create(p)
  \/ \E p \in StorePaths : Mkdir(p)
  \/ \E p \in StorePaths : Unlink(p)
  \/ \E p \in StorePaths, n \in StoreSizes : Truncate(p, n)

SpecStore == Init /\ [][NextStore]_vars

\* =================================================================== claims
\* C2: in every state of a mounted volume, whatever calls were made and whether
\* they failed, the free_clusters counter statvfs reports is the number of
\* clusters 1..cluster_count-1 whose used flag is 0.
C2_FreeCounter ==
  mounted => ghostfs_statvfs(View).f_bfree = Cardinality({i \in 1..(View.count - 1) : View.clusters[i].used = 0})

\* C3: in every state of a mounted volume, every cluster on the chain that
\* starts at the first-cluster field of a used entry (file or directory) has
\* its used flag set: no used entry and no next field of such a chain refers
\* to a cluster that is not in use.
C3_ChainsInUse ==
  mounted => \A it \in Reach(View) : \A c \in SeqSet(EntChain(View, it).seq) : View.clusters[c].used = 1

\* C4: in every state of a mounted volume, the chain of every used regular file
\* ends at a next of 0 and has exactly ceil(size / CLUSTER_DATA) clusters, and a
\* file of size 0 has first-cluster 0.
C4_ChainLength ==
  mounted => \A it \in Reach(View) : ~dir_entry_is_directory(EntSize(View, it)) =>
     /\ FileChain(View, EntCluster(View, it)).end = "nil"
     /\ Len(FileChain(View, EntCluster(View, it)).seq) = size_to_clusters(EntSize(View, it))
     /\ (EntSize(View, it) = 0 => EntCluster(View, it) = 0)

\* what a caller sees at a path: the lookup, the kind, the size, the bytes
Lookup(g, path) == dir_iter_lookup(g, path, FALSE)

IsFile(g, path) ==
  /\ Lookup(g, path).ret = OK
  /\ ~Lookup(g, path).it.root
  /\ ~dir_entry_is_directory(EntSize(g, Lookup(g, path).it))

IsDir(g, path) ==
  /\ Lookup(g, path).ret = OK
  /\ dir_entry_is_directory(EntSize(g, Lookup(g, path).it))

Absent(g, path) == Lookup(g, path).ret = "ENOENT"

FileSize(g, path) == EntSize(g, Lookup(g, path).it)

\* ghostfs_read(entry, buf, size, 0): the result and the bytes
FileContent(g, path) == ghostfs_read(g, Lookup(g, path).it, FileSize(g, path), 0)

\* C7: when old is a regular file and new is absent or a regular file, a
\* rename(old, new) that succeeds leaves new a file with the size and the
\* content old had; old is not found afterwards, unless old and new are the
\* same path, and then the file is still there with its content; the clusters
\* of a file that was at new are free.
C7_RenameFile ==
  [][\A p \in IOPaths, q \in IOPaths :
       (/\ Rename(p, q)
        /\ last'.ret = OK
        /\ IsFile(View, p)
        /\ IsFile(View, q) \/ Absent(View, q))
       => /\ IsFile(View', q)
          /\ FileSize(View', q) = FileSize(View, p)
          /\ FileContent(View', q) = FileContent(View, p)
          /\ p # q => Absent(View', p)
          /\ (p # q /\ IsFile(View, q)) =>
                \A c \in SeqSet(FileChain(View, EntCluster(View, Lookup(View, q).it)).seq) :
                   View'.clusters[c].used = 0
    ]_vars

\* the clusters in use, and what every used entry holds
InUse(g) == {i \in 1..(g.count - 1) : g.clusters[i].used # 0}

EntryTable(g) == [it \in Reach(g) |-> <<EntName(g, it), EntSize(g, it), EntCluster(g, it)>>]

\* the chain of every directory, the root's first: its last cluster is the
\* terminal cluster, whose next is 0
DirChains(g) ==
  <<DirChain(g, 0)>> \o
  <<[it \in {e \in Reach(g) : dir_entry_is_directory(EntSize(g, e))} |-> DirChain(g, EntCluster(g, it))]>>

\* a call whose allocation failed
NoSpace == last'.ret = "ENOSPC" /\ last'.op \in {"create", "mkdir", "truncate", "write"}

\* C10: a call that fails with no-space (in alloc_clusters itself, in
\* create_entry after the parent directory was extended, or in the growth of a
\* file) leaves the set of clusters in use, the free_clusters counter, the
\* chain of every directory up to its terminal cluster, and the size and
\* first-cluster of every directory entry as they were before the call.
C10_AllocRollback ==
  [][(mounted /\ mounted' /\ NoSpace) =>
       /\ InUse(View') = InUse(View)
       /\ View'.free = View.free
       /\ DirChains(View') = DirChains(View)
       /\ EntryTable(View') = EntryTable(View)
    ]_vars

\* the first clusters of the directories: the root and every directory entry
DirFirsts(g) == {0} \cup {EntCluster(g, it) : it \in {e \in Reach(g) : dir_entry_is_directory(EntSize(g, e))}}

\* C6: in every state of a mounted volume, after any creates, mkdirs, unlinks,
\* rmdirs and renames, the names of the used entries of a directory (over all
\* the clusters of its chain) are pairwise distinct, not empty, and at most
\* FILENAME_SIZE - 1 characters long.
C6_Names ==
  mounted => \A first \in DirFirsts(View) : \A it \in UsedEntries(View, first) :
     /\ StrLen(EntName(View, it)) \in 1..(FILENAME_SIZE - 1)
     /\ \A jt \in UsedEntries(View, first) \ {it} :
          CStr(EntName(View, it)) # CStr(EntName(View, jt))

\* the paths of Paths that name a new entry of the root directory
NewInRoot(g) == {p \in Paths : Len(p) = 2 /\ Absent(g, p)}

\* the volume formatted on a carrier of HEADER_SIZE + CLUSTER_SIZE bytes
OneCluster == mounted /\ disk.cap = HEADER_SIZE + CLUSTER_SIZE

\* C8 as stated: on the volume of one cluster cluster_count is 1 and
\* free_clusters is 0, and every create and every mkdir of a new entry fails
\* with no-space.
C8_Original ==
  [][OneCluster =>
       /\ View.count = 1 /\ View.free = 0
       /\ \A p \in NewInRoot(View) : (Create(p) \/ Mkdir(p)) => last'.ret = "ENOSPC"
    ]_vars

\* C8, amended: on the volume of one cluster cluster_count is 1 and
\* free_clusters is 0; every mkdir of a new entry fails with no-space; the
\* create of a new file fails with no-space when every slot of the root
\* cluster is in use, and succeeds while one is unused.
C8_OneCluster ==
  [][OneCluster =>
       /\ View.count = 1 /\ View.free = 0
       /\ \A p \in NewInRoot(View) :
            /\ Mkdir(p) => last'.ret = "ENOSPC"
            /\ Create(p) => (last'.ret = "ENOSPC" <=> Cardinality(UsedEntries(View, 0)) = CLUSTER_DIRENTS)
            /\ Create(p) => (last'.ret = OK <=> Cardinality(UsedEntries(View, 0)) < CLUSTER_DIRENTS)
    ]_vars

\* a create has failed with no-space on the volume of one cluster, its root full
C8_Witness ==
  /\ OneCluster /\ last.op = "create" /\ last.ret = "ENOSPC"
  /\ Cardinality(UsedEntries(View, 0)) = CLUSTER_DIRENTS

\* ---- create/remove round trips
\* what is made: a path and whether it is a directory
Made == Paths \X BOOLEAN

\* the sets that are made and removed again: one entry, or two, the one with
\* the shorter path first (a parent before its child)
Trips ==
  {<<m>> : m \in Made} \cup
  {<<mn[1], mn[2]>> : mn \in {x \in Made \X Made :
      x[1][1] # x[2][1] /\ Len(x[1][1]) <= Len(x[2][1]) /\ (Len(x[1][1]) = Len(x[2][1]) => x[1][1][2][1] < x[2][1][2][1])}}

\* create_entry for each of trip from its i-th on, in order: ret is OK when all succeeded
RECURSIVE MakeAll(_, _, _)
MakeAll(g, trip, i) ==
  IF i > Len(trip) THEN Res(OK, g, 0)
  ELSE LET r == create_entry(g, trip[i][1], trip[i][2]) IN
       IF r.ret # OK THEN Res(r.ret, r.g, 0) ELSE MakeAll(r.g, trip, i + 1)

\* remove_entry for each of trip from its i-th down, children before parents
RECURSIVE RemoveAll(_, _, _)
RemoveAll(g, trip, i) ==
  IF i < 1 THEN Res(OK, g, 0)
  ELSE LET r == remove_entry(g, trip[i][1], trip[i][2]) IN
       IF r.ret # OK THEN Res(r.ret, r.g, 0) ELSE RemoveAll(r.g, trip, i - 1)

\* the paths of a trip are new: none resolves
AllNew(g, trip) == \A i \in 1..Len(trip) : Lookup(g, trip[i][1]).ret = "ENOENT"

\* the round trip: every create and every remove succeeded, and the handle after it
RoundTrip(g, trip) ==
  LET mk == MakeAll(g, trip, 1) IN
  IF mk.ret # OK THEN mk ELSE RemoveAll(mk.g, trip, Len(trip))

\* the clusters of the chains of the directories g has
DirClusters(g) == UNION {SeqSet(DirChain(g, first).seq) : first \in DirFirsts(g)}

\* C9 as stated: after a set of new files and directories is created and then
\* removed again, children before parents, free_clusters has the value it had
\* before, however many entries the parent directory held.
C9_Original ==
  mounted => \A trip \in Trips :
     LET rt == RoundTrip(View, trip) IN
     (AllNew(View, trip) /\ rt.ret = OK) => rt.g.free = View.free

\* C9, amended: after such a round trip free_clusters is its value before less
\* the clusters that the creates chained onto directories that had no unused
\* entry, which stay on those directories; it is the value before when every
\* parent directory had an unused entry.
C9_RoundTrip ==
  mounted => LET g == View IN \A trip \in Trips :
     LET rt == RoundTrip(g, trip) IN
     (AllNew(g, trip) /\ rt.ret = OK) =>
        /\ DirFirsts(rt.g) = DirFirsts(g)
        /\ DirClusters(g) \subseteq DirClusters(rt.g)
        /\ rt.g.free = g.free - Cardinality(DirClusters(rt.g) \ DirClusters(g))

\* a create has put an entry into the root directory, and a round trip that
\* fills the root leaves a cluster chained to it
C9_Witness ==
  /\ mounted /\ last.op = "create" /\ last.ret = OK
  /\ \E trip \in Trips :
       LET rt == RoundTrip(View, trip) IN
       /\ AllNew(View, trip) /\ rt.ret = OK
       /\ rt.g.free = View.free - 1
       /\ DirChain(rt.g, 0).seq # DirChain(View, 0).seq

\* ---- file contents
\* the bytes old with b written at offset o: the bytes between the old end and
\* o are zero
Overlay(old, b, o) ==
  [i \in 1..(IF Len(old) > o + Len(b) THEN Len(old) ELSE o + Len(b)) |->
     IF i > o /\ i <= o + Len(b) THEN b[i - o]
     ELSE IF i <= Len(old) THEN old[i] ELSE 0]

\* the files of IOPaths that the handle g has
Files(g) == {p \in IOPaths : IsFile(g, p)}

\* the file at p is the one the handle h is open on
HandleOn(h, p) == handles[h].open /\ handles[h].it = Lookup(View, p).it

\* C5: in every state of a mounted volume read(offset 0, len size) of a file
\* returns size bytes, and from that state: a file just created has no bytes;
\* a write that succeeds leaves the bytes it was given at its offset, zeros
\* between the old end of the file and its offset, and every other byte of
\* every file as it was; a write that fails changes no byte (it may lengthen
\* the file with zeros).  So each byte read is the byte of the last write that
\* covered it, and zero when none did.
C5_ReadAfterWrite ==
  mounted => LET g == View IN
    /\ \A p \in Files(g) :
         /\ FileContent(g, p).ret = OK
         /\ FileContent(g, p).val = FileSize(g, p)
         /\ Len(FileContent(g, p).buf) = FileSize(g, p)
    /\ \A p \in IOPaths \ Files(g) :
         LET r == create_entry(g, p, FALSE) IN
         r.ret = OK =>
           /\ IsFile(r.g, p) /\ FileContent(r.g, p).buf = <<>>
           /\ \A q \in Files(g) : FileContent(r.g, q) = FileContent(g, q)
    /\ \A h \in 1..MaxHandles : handles[h].open =>
         \A b \in Bufs, o \in Offsets :
           LET r == ghostfs_write(g, handles[h].it, b, o) IN
           /\ r.ret # HANG
           /\ \A q \in Files(g) :
                /\ IsFile(r.g, q)
                /\ FileContent(r.g, q).buf =
                     IF r.ret = OK /\ HandleOn(h, q)
                     THEN Overlay(FileContent(g, q).buf, b, o)
                     ELSE Overlay(FileContent(g, q).buf, <<>>, FileSize(r.g, q))

\* a write has succeeded on a file of two clusters that begins with zeros no
\* write covered and ends with the bytes written across the cluster boundary
C5_Witness ==
  /\ mounted /\ last.op = "write" /\ last.ret = OK
  /\ \E p \in IOPaths :
       /\ IsFile(View, p)
       /\ FileContent(View, p).buf = [i \in 1..(CLUSTER_DATA + 1) |-> IF i < CLUSTER_DATA THEN 0 ELSE 3]

\* ---- what a volume holds
\* the directory that starts at cluster first, as a caller can see it: the
\* name of each entry with the sub-directory of a directory, and the size and
\* the bytes of a file
RECURSIVE Tree(_, _, _)
Tree(g, first, fuel) ==
  {<<CStr(EntName(g, it)),
     IF dir_entry_is_directory(EntSize(g, it))
     THEN IF fuel = 0 THEN {} ELSE Tree(g, EntCluster(g, it), fuel - 1)
     ELSE <<EntSize(g, it), ghostfs_read(g, it, EntSize(g, it), 0)>> >> : it \in UsedEntries(g, first)}

\* the handle a new mount of the store gives, its cluster 0 read
Remount == cluster_get(ghostfs_mount(disk).g, disk, 0)

HasName(g, first, name) ==
  \E it \in UsedEntries(g, first) : CStr(EntName(g, it)) = name

Refusals == {"ENOTDIR", "ENAMETOOLONG", "EINVAL", "EEXIST"}

\* C11: when the lookup of the parent succeeds, create and mkdir fail with
\* not-a-directory if the parent is a regular file, and for a parent that is
\* a directory with name-too-long if the final component has more than
\* FILENAME_SIZE - 1 bytes, with invalid if it is empty, and with exists if
\* the parent has a used entry of that name; a call that fails with one of
\* these leaves every cluster (its entries, its used and dirty flags, its
\* link) and free_clusters as they were.
C11_Reject ==
  [][\A p \in RejectPaths, d \in BOOLEAN :
       (/\ last'.op = (IF d THEN "mkdir" ELSE "create")
        /\ IF d THEN Mkdir(p) ELSE Create(p)) =>
          LET par == dir_iter_lookup(View, p, TRUE)
              name == last_component(p)
              isdir == dir_entry_is_directory(EntSize(View, par.it))
          IN
          /\ par.ret = OK =>
               /\ ~isdir => last'.ret = "ENOTDIR"
               /\ (isdir /\ Len(name) > FILENAME_SIZE - 1) => last'.ret = "ENAMETOOLONG"
               /\ (isdir /\ name = <<>>) => last'.ret = "EINVAL"
               /\ (isdir /\ HasName(View, EntCluster(View, par.it), name)) => last'.ret = "EEXIST"
          /\ last'.ret \in Refusals => View' = View /\ disk' = disk
    ]_vars

\* a mkdir was refused because the name is taken by an entry that lives in the
\* second cluster of the root directory
C11_Witness ==
  /\ mounted /\ last.op = "mkdir" /\ last.ret = "EEXIST"
  /\ \E it \in UsedEntries(View, 0) : it.cl # 0 /\ CStr(EntName(View, it)) = C

\* ---- the store between two syncs
\* C12: a step made on a mounted volume by a call that is no sync (create,
\* mkdir, unlink, rmdir, truncate, write, rename, read, getattr, statvfs,
\* opendir, next_entry, also a call that never returns) leaves the store as
\* it was, byte for byte; and the store of a mounted volume can be mounted:
\* its digest is the MD5 of its header and its cluster 0.
C12_Durability ==
  [][(mounted /\ ~Sync /\ ~Umount) =>
       /\ disk' = disk
       /\ ghostfs_mount(disk').ret = OK
    ]_vars

\* a write has succeeded after a sync, and the store still holds what the sync
\* left: the file /a without the byte that the mounted volume has
C12_Witness ==
  /\ mounted /\ last.op = "write" /\ last.ret = OK
  /\ IsFile(View, PathA) /\ FileSize(View, PathA) = 1
  /\ IsFile(Remount, PathA) /\ FileSize(Remount, PathA) = 0

\* ---- truncate to nothing
\* C13: a truncate to size 0 that succeeds on a regular file of size above 0
\* leaves every cluster of the chain the file had with used = 0 and leaves the
\* first-cluster field of the entry 0.
C13_TruncateZero ==
  [][\A p \in IOPaths :
       (/\ Truncate(p, 0)
        /\ last'.ret = OK
        /\ IsFile(View, p)
        /\ FileSize(View, p) > 0)
       => /\ \A c \in SeqSet(FileChain(View, EntCluster(View, Lookup(View, p).it)).seq) :
               View'.clusters[c].used = 0
          /\ IsFile(View', p)
          /\ FileSize(View', p) = 0
          /\ EntCluster(View', Lookup(View', p).it) = 0
    ]_vars

\* ---- rmdir
\* C14: rmdir of a directory fails with not-empty exactly when a cluster of
\* the directory's chain holds a used entry, and then it changes nothing;
\* otherwise it succeeds, every cluster of the chain has used = 0 afterwards
\* and the entry of the directory is unused.  rmdir of a regular file fails
\* with not-a-directory and unlink of a directory with is-a-directory, both
\* changing nothing.
C14_Rmdir ==
  [][\A p \in {PathA} \cup InA :
       /\ (Rmdir(p) /\ last'.op = "rmdir" /\ IsDir(View, p)) =>
            LET it == Lookup(View, p).it
                first == EntCluster(View, it)
            IN
            /\ last'.ret = "ENOTEMPTY" <=> UsedEntries(View, first) # {}
            /\ last'.ret = "ENOTEMPTY" => View' = View
            /\ UsedEntries(View, first) = {} =>
                 /\ last'.ret = OK
                 /\ \A c \in SeqSet(DirChain(View, first).seq) : View'.clusters[c].used = 0
                 /\ ~dir_entry_used(EntName(View', it))
       /\ (Rmdir(p) /\ last'.op = "rmdir" /\ IsFile(View, p)) =>
            last'.ret = "ENOTDIR" /\ View' = View
       /\ (Unlink(p) /\ last'.op = "unlink" /\ IsDir(View, p)) =>
            last'.ret = "EISDIR" /\ View' = View
    ]_vars

\* rmdir("/a") was refused as not-empty when the first cluster of /a holds no
\* used entry and its second cluster holds one
C14_Witness ==
  /\ mounted /\ last.op = "rmdir" /\ last.ret = "ENOTEMPTY"
  /\ IsDir(View, PathA)
  /\ LET first == EntCluster(View, Lookup(View, PathA).it) IN
     /\ UsedEntries(View, first) # {}
     /\ \A it \in UsedEntries(View, first) : it.cl # first

\* ---- the slots of a directory cluster
\* the slots dir_iter_next visits from iterator it on, in order
RECURSIVE Visits(_, _, _)
Visits(g, it, fuel) ==
  IF fuel = 0 THEN <<it>>
  ELSE Let1(dir_iter_next(g, it), LAMBDA r :
       IF r.ret # OK THEN <<it>> ELSE <<it>> \o Visits(g, r.it, fuel - 1))

\* the slots of the directory that starts at first, cluster by cluster along
\* the chain, upto slots in each cluster
RECURSIVE SlotsOf(_, _)
SlotsOf(chain, upto) ==
  IF chain = <<>> THEN <<>>
  ELSE [k \in 1..upto |-> Iter(Head(chain), k - 1)] \o SlotsOf(Tail(chain), upto)

\* the first slot of seq that is unused, 0 if every slot is used
FirstUnused(g, seq) ==
  IF \A i \in 1..Len(seq) : dir_entry_used(EntName(g, seq[i])) THEN 0
  ELSE CHOOSE i \in 1..Len(seq) :
         /\ ~dir_entry_used(EntName(g, seq[i]))
         /\ \A j \in 1..(i - 1) : dir_entry_used(EntName(g, seq[j]))

\* what a create or mkdir of path p did to its parent directory when it
\* succeeded, a cluster holding upto slots
Placed(p, upto) ==
  LET par == dir_iter_lookup(View, p, TRUE)
      first == EntCluster(View, par.it)
      chain == DirChain(View, first).seq
      slots == SlotsOf(chain, upto)
      k == FirstUnused(View, slots)
      after == DirChain(View', first).seq
  IN
  IF k # 0
  THEN /\ after = chain
       /\ CStr(EntName(View', slots[k])) = last_component(p)
  ELSE /\ Len(after) = Len(chain) + 1
       /\ SubSeq(after, 1, Len(chain)) = chain
       /\ View.clusters[after[Len(after)]].used = 0
       /\ CStr(EntName(View', Iter(after[Len(after)], 0))) = last_component(p)

\* C15 as stated: a directory cluster holds entries in its slots up to the
\* last but one only: the iterator goes through CLUSTER_DIRENTS - 1 slots of a
\* cluster and then follows next, a create in a directory whose clusters have
\* CLUSTER_DIRENTS - 1 used entries each chains a new cluster, and the last
\* slot of a cluster is never used.
C15_Original ==
  [][\A p \in {PathA} \cup InA, d \in BOOLEAN :
       (/\ last'.op = (IF d THEN "mkdir" ELSE "create")
        /\ IF d THEN Mkdir(p) ELSE Create(p)
        /\ last'.ret = OK)
       => /\ Placed(p, CLUSTER_DIRENTS - 1)
          /\ \A first \in DirFirsts(View') :
               /\ Visits(View', Iter(first, 0), Fuel(View')) =
                     SlotsOf(DirChain(View', first).seq, CLUSTER_DIRENTS - 1)
               /\ \A it \in UsedEntries(View', first) : it.nr < CLUSTER_DIRENTS - 1
    ]_vars

\* C15, amended: a directory cluster holds entries in every one of its
\* CLUSTER_DIRENTS slots: the iterator goes through all the slots of a cluster
\* and then follows next; a create or mkdir that succeeds puts the entry in
\* the first unused slot of the parent's chain and chains no cluster, and
\* only when every slot of every cluster of the chain is used it chains a new
\* cluster and puts the entry in its first slot.
C15_AllSlots ==
  [][\A p \in {PathA} \cup InA, d \in BOOLEAN :
       (/\ last'.op = (IF d THEN "mkdir" ELSE "create")
        /\ IF d THEN Mkdir(p) ELSE Create(p)
        /\ last'.ret = OK)
       => /\ Placed(p, CLUSTER_DIRENTS)
          /\ \A first \in DirFirsts(View') :
               Visits(View', Iter(first, 0), Fuel(View')) =
                 SlotsOf(DirChain(View', first).seq, CLUSTER_DIRENTS)
    ]_vars

\* a create has chained a second cluster onto the directory /a, whose first
\* cluster has an entry in each of its slots
C15_Witness ==
  /\ mounted /\ last.op = "create" /\ last.ret = OK
  /\ IsDir(View, PathA)
  /\ LET first == EntCluster(View, Lookup(View, PathA).it) IN
     /\ Len(DirChain(View, first).seq) = 2
     /\ Cardinality(UsedEntries(View, first)) = CLUSTER_DIRENTS + 1

\* ---- the dirty byte and the store
\* the clusters of the volume the store holds
Stored == 0..(disk.hdr - 1)

Inside(p, q) == Len(q) > Len(p) /\ SubSeq(q, 1, Len(p)) = p

\* C17 as stated: after a rename(old, new) that succeeds where old is a
\* directory, the entry at new is not flagged as a directory.
C17_Original ==
  mounted => \A p \in Paths, q \in Paths :
     IsDir(View, p) =>
       LET r == ghostfs_rename(View, p, q) IN
       (r.ret = OK /\ Lookup(r.g, q).ret = OK)
          => ~dir_entry_is_directory(EntSize(r.g, Lookup(r.g, q).it))

\* C17, amended: rename copies the size field as it is, the directory flag
\* with it.  After a rename(old, new) that succeeds where old is a directory
\* and new is not a path inside old, new is a directory with the first cluster
\* and the entries old had, and old is not found.
C17_RenameDir ==
  mounted => \A p \in Paths, q \in Paths :
     (IsDir(View, p) /\ ~Inside(p, q)) =>
       LET r == ghostfs_rename(View, p, q) IN
       r.ret = OK =>
          /\ IsDir(r.g, q)
          /\ EntCluster(r.g, Lookup(r.g, q).it) = EntCluster(View, Lookup(View, p).it)
          /\ EntSize(r.g, Lookup(r.g, q).it) = EntSize(View, Lookup(View, p).it)
          /\ Absent(r.g, p)

\* a directory that holds an entry was renamed and is a directory at its new
\* path, the entry in it
C17_Witness ==
  /\ mounted /\ last.op = "rename" /\ last.ret = OK
  /\ IsDir(View, << <<>>, B >>)
  /\ UsedEntries(View, EntCluster(View, Lookup(View, << <<>>, B >>).it)) # {}

\* ---- what write returns
max(a, b) == IF a > b THEN a ELSE b

\* C18: for an open regular file, an offset >= 0 and a buffer of len >= 0
\* bytes (len = 0, an empty file and an offset equal to a size that is a
\* multiple of the cluster payload included) with offset + len within the
\* largest file size and enough free clusters for the growth, write succeeds,
\* returns len, and leaves the size max(old size, offset + len).
C18_WriteReturns ==
  mounted => LET g == View IN
    \A h \in 1..MaxHandles : handles[h].open =>
      \A b \in Bufs, o \in Offsets :
        LET it == handles[h].it
            old == EntSize(g, it)
            new == max(old, o + Len(b))
            r == ghostfs_write(g, it, b, o)
        IN (/\ ~dir_entry_is_directory(old)
            /\ o + Len(b) <= FILESIZE_MAX
            /\ size_to_clusters(new) - size_to_clusters(old) <= g.free)
           => /\ r.ret = OK
              /\ r.val = Len(b)
              /\ EntSize(r.g, it) = new

\* ---- a file that is lengthened
Zeros(n) == [i \in 1..n |-> 0]

\* C19: after a truncate(path, n) that succeeds with n greater than the size
\* s of the file, the bytes s..n-1 read zero, also when the file was larger
\* before and was cut to s, and the bytes 0..s-1 are as they were.
C19_GrowZeros ==
  mounted => LET g == View IN
    \A n \in Sizes :
      (IsFile(g, PathA) /\ n > FileSize(g, PathA)) =>
        LET r == ghostfs_truncate(g, PathA, n) IN
        r.ret = OK =>
           /\ FileSize(r.g, PathA) = n
           /\ FileContent(r.g, PathA).ret = OK
           /\ FileContent(r.g, PathA).buf = FileContent(g, PathA).buf \o Zeros(n - FileSize(g, PathA))

\* a file that held 3, 3 was cut to one byte and lengthened into a second
\* cluster: it reads 3 and then zeros
C19_Witness ==
  /\ mounted /\ last.op = "truncate" /\ last.ret = OK
  /\ IsFile(View, PathA)
  /\ FileContent(View, PathA).buf = <<3>> \o Zeros(CLUSTER_DATA)

\* ---- dirty tracking
\* payload, next and used of the cached cluster i are the bytes of the store
SameAsStore(i) ==
  /\ gfs.clusters[i].data = disk.cl[i].data
  /\ gfs.clusters[i].next = disk.cl[i].next
  /\ gfs.clusters[i].used = disk.cl[i].used

SlashPaths == {<< <<>>, A, <<>> >>, << <<>>, <<>>, <<>> >>, << <<>>, A, <<>>, B >>}

\* C21: a lookup succeeds only with the root entry or with an entry whose
\* filename is not empty: a path with an empty component never resolves to a
\* slot that is not in use, so an unlink or rmdir of such a path that succeeds
\* removes a used entry and frees no cluster an entry removed earlier recorded.
C21_NoUnusedSlot ==
  mounted => \A p \in SlashPaths :
     /\ Lookup(View, p).ret = OK =>
           Lookup(View, p).it.root \/ dir_entry_used(EntName(View, Lookup(View, p).it))
     /\ \A d \in BOOLEAN :
           remove_entry(View, p, d).ret = OK =>
              dir_entry_used(EntName(View, Lookup(View, p).it))

\* ---- clusters in use and the tree
\* C22: in every state of a mounted volume every cluster above 0 that is in
\* use is on the chain of the root directory or of a file or directory that
\* lookups from the root arrive at through used entries, also after a
\* directory was renamed to a path inside itself and after a write or truncate
\* through a handle whose file was unlinked.
C22_NoLeak ==
  mounted => \A c \in InUse(View) : c \in Owned(View)

\* C23: in every state of a mounted volume the chain of the root directory and
\* the chain of every used entry end at a next of 0 without passing a cluster
\* twice (so within cluster_count steps), cluster 0 is on the chain of the root
\* directory only, and no cluster is on the chains of two used entries.
C23_Chains ==
  mounted => LET g == View IN
    /\ DirChain(g, 0).end = "nil"
    /\ Len(DirChain(g, 0).seq) <= g.count
    /\ \A it \in Reach(g) :
         /\ EntChain(g, it).end = "nil"
         /\ Len(EntChain(g, it).seq) <= g.count
         /\ SeqSet(EntChain(g, it).seq) \cap SeqSet(DirChain(g, 0).seq) = {}
         /\ \A jt \in Reach(g) :
              jt # it => SeqSet(EntChain(g, it).seq) \cap SeqSet(EntChain(g, jt).seq) = {}

====
